---- MODULE Spec2Model ----
(***************************************************************************)
(* Model of parse_eir (src/src/eir.rs): the single-pass decoder of         *)
(* Bluetooth Extended Inquiry Response data.  One behaviour is one call of *)
(* parse_eir on one input buffer; one step is one iteration of its loop.   *)
(***************************************************************************)
EXTENDS Integers, Sequences, FiniteSets

\* ------------------------------------------------------------------ bounds

\* Longest buffer drawn octet by octet from Alphabet.
MaxLen == 4

\* Largest number of blocks concatenated into a structured buffer.
MaxBlocks == 2

\* Largest number of chunk boundaries inside a buffer (a Bytes has none, a
\* Chain of two has one).
MaxCuts == 1

\* --------------------------------------------------------- EIRDataTypes

Flags == 1
UUID16Incomplete == 2
UUID16Complete == 3
UUID32Incomplete == 4
UUID32Complete == 5
UUID128Incomplete == 6
UUID128Complete == 7
NameShort == 8
NameComplete == 9
TxPowerLevel == 10
URI == 36
ManufacturerSpecificData == 255

\* The codes FromPrimitive::from_u8 maps to Some(variant).
EIRDataTypes ==
  { Flags, UUID16Incomplete, UUID16Complete, UUID32Incomplete, UUID32Complete,
    UUID128Incomplete, UUID128Complete, NameShort, NameComplete, TxPowerLevel,
    URI, ManufacturerSpecificData }

\* ------------------------------------------------------------ data model

\* enum EIR, as one record shape for all variants (unused fields are empty).
EIRFlagsRec(bits) ==
  [tag |-> "Flags", bits |-> bits, ids |-> <<>>, name |-> <<>>, complete |-> FALSE]

EIRUuid16(ids) ==
  [tag |-> "Uuid16", bits |-> 0, ids |-> ids, name |-> <<>>, complete |-> FALSE]

EIRName(name, complete) ==
  [tag |-> "Name", bits |-> 0, ids |-> <<>>, name |-> name, complete |-> complete]

\* enum EIRError (NoError is the absence of one).
NoError == [kind |-> "None", len |-> 0]

RepeatedFlag == [kind |-> "RepeatedFlag", len |-> 0]

RepeatedName == [kind |-> "RepeatedName", len |-> 0]

UnexpectedDataLength(n) == [kind |-> "UnexpectedDataLength", len |-> n]

\* The union of the five EIRFlags bits (1 << 0 .. 1 << 4).
EIRFlagsAll == 31

\* BitFlags::<EIRFlags>::from_bits_truncate: bits & ALL.  ALL is 2^5 - 1, so
\* the mask keeps the value modulo 32.
from_bits_truncate(b) == b % (EIRFlagsAll + 1)

\* ------------------------------------------------------------ the cursor

Min(a, b) == IF a <= b THEN a ELSE b

\* Buf::remaining of the buffer b with p octets consumed.
remaining(b, p) == Len(b) - p

\* Buf::has_remaining.
has_remaining(b, p) == remaining(b, p) > 0

\* buf.take(len - 1): the data region, the next len - 1 octets capped at what
\* the buffer still holds (Take::remaining = min(inner.remaining(), limit)).
\* p is the cursor after the length and type octets.
take(b, p, len) == SubSeq(b, p + 1, p + Min(len - 1, remaining(b, p)))

\* Buf::bytes of the data region data, which starts at offset p of a buffer
\* whose chunk boundaries are at the offsets c: the first contiguous chunk of
\* the region, which is all of it only when no boundary falls inside.
bytes(data, p, c) ==
  LET inside == { x \in c : x > p /\ x < p + Len(data) }
  IN  IF inside = {} THEN data
      ELSE SubSeq(data, 1, (CHOOSE x \in inside : \A y \in inside : x <= y) - p)

\* Buf::get_u16_le on the octets lo, hi.
get_u16_le(lo, hi) == lo + 256 * hi

\* ------------------------------------------------- String::from_utf8_lossy

safe_get(b, i) == IF i <= Len(b) THEN b[i] ELSE 0

\* (x & 192) == TAG_CONT
IsCont(x) == x >= 128 /\ x <= 191

utf8_char_width(x) ==
  IF x < 128 THEN 1
  ELSE IF x >= 194 /\ x <= 223 THEN 2
  ELSE IF x >= 224 /\ x <= 239 THEN 3
  ELSE IF x >= 240 /\ x <= 244 THEN 4
  ELSE 0

\* The second octet of a 3-octet sequence is in the range its lead allows.
Second3(x, y) ==
  \/ x = 224 /\ y >= 160 /\ y <= 191
  \/ x >= 225 /\ x <= 236 /\ IsCont(y)
  \/ x = 237 /\ y >= 128 /\ y <= 159
  \/ x >= 238 /\ x <= 239 /\ IsCont(y)

\* The second octet of a 4-octet sequence is in the range its lead allows.
Second4(x, y) ==
  \/ x = 240 /\ y >= 144 /\ y <= 191
  \/ x >= 241 /\ x <= 243 /\ IsCont(y)
  \/ x = 244 /\ y >= 128 /\ y <= 143

\* The text, as a sequence of code points, of the octets b from index i on:
\* a valid sequence gives its code point, a maximal invalid part gives one
\* U+FFFD (65533).
RECURSIVE Lossy(_, _)
Lossy(b, i) ==
  IF i > Len(b) THEN <<>>
  ELSE LET x == b[i]
           w == utf8_char_width(x)
           y == safe_get(b, i + 1)
           z == safe_get(b, i + 2)
           u == safe_get(b, i + 3)
       IN  IF w = 1 THEN <<x>> \o Lossy(b, i + 1)
           ELSE IF w = 2 THEN
             IF IsCont(y)
               THEN <<(x - 192) * 64 + (y - 128)>> \o Lossy(b, i + 2)
               ELSE <<65533>> \o Lossy(b, i + 1)
           ELSE IF w = 3 THEN
             IF ~Second3(x, y) THEN <<65533>> \o Lossy(b, i + 1)
             ELSE IF ~IsCont(z) THEN <<65533>> \o Lossy(b, i + 2)
             ELSE <<(x - 224) * 4096 + (y - 128) * 64 + (z - 128)>>
                    \o Lossy(b, i + 3)
           ELSE IF w = 4 THEN
             IF ~Second4(x, y) THEN <<65533>> \o Lossy(b, i + 1)
             ELSE IF ~IsCont(z) THEN <<65533>> \o Lossy(b, i + 2)
             ELSE IF ~IsCont(u) THEN <<65533>> \o Lossy(b, i + 3)
             ELSE <<(x - 240) * 262144 + (y - 128) * 4096 + (z - 128) * 64
                      + (u - 128)>> \o Lossy(b, i + 4)
           ELSE <<65533>> \o Lossy(b, i + 1)

from_utf8_lossy(b) == Lossy(b, 1)

\* --------------------------------------------------------------- inputs

\* Octets the exhaustive buffers are built from: length octets 0..4, every
\* type code parse_eir decodes (1, 2, 3, 8, 9), an unimplemented code (4, 255)
\* and an unrecognized one (0 in type position); 255 is also an octet that is
\* never valid UTF-8 and that has bits outside the EIRFlags set.
Alphabet == {0, 1, 2, 3, 4, 8, 9, 255}

\* Every buffer of at most n octets of Alphabet.
BuffersUpTo(n) == UNION { [1..k -> Alphabet] : k \in 0..n }

\* Blocks [length, type, data...] the structured buffers are built from.
Blocks ==
  { <<0>>,
    <<2, 1, 6>>, <<2, 1, 255>>, <<3, 1, 6, 7>>, <<1, 1>>,
    <<3, 3, 171, 172>>, <<3, 2, 52, 18>>, <<3, 3, 52, 18>>, <<1, 2>>,
    <<4, 3, 1, 2, 3>>, <<5, 2, 1, 0, 2, 0>>,
    <<4, 9, 65, 66, 67>>, <<3, 9, 72, 105>>, <<4, 9, 72, 105>>,
    <<3, 8, 72, 105>>, <<1, 8>>, <<3, 9, 195, 169>>, <<3, 8, 65, 195>>,
    <<2, 4, 9>>, <<1, 5>>, <<3, 6, 1, 1>>, <<2, 7, 0>>, <<2, 10, 4>>,
    <<3, 36, 1, 104>>, <<3, 255, 76, 0>>, <<2, 119, 8>>, <<7, 8, 65>> }

\* Every concatenation of at most k blocks.
RECURSIVE Concats(_)
Concats(k) ==
  IF k = 0 THEN { <<>> }
  ELSE Concats(k - 1) \cup { x \o y : x \in Concats(k - 1), y \in Blocks }

\* The buffers parse_eir is called on.
Inputs == BuffersUpTo(MaxLen) \cup Concats(MaxBlocks)

\* parse_eir takes any T: Buf, and a Buf may hold its octets in several
\* chunks (a Chain of Bytes).  The sets of at most k chunk boundaries of a
\* buffer of n octets, each an offset in 1 .. n - 1.
RECURSIVE CutSets(_, _)
CutSets(n, k) ==
  IF k = 0 THEN { {} }
  ELSE CutSets(n, k - 1)
         \cup { c \cup {x} : c \in CutSets(n, k - 1), x \in 1..(n - 1) }

\* ---------------------------------------------------------------- state

VARIABLES
  buf,         \* the input octets (never modified; the cursor is pos)
  cuts,        \* the offsets in buf where one chunk ends and the next starts
  pos,         \* octets of buf consumed so far
  eir,         \* the output vector
  has_flag,
  has_name,
  uuid16_idx,  \* Option<usize>: <<>> is None, <<i>> is Some(i)
  pc,          \* "loop", or how the call ended: "ok", "err", "panic"
  err,         \* the EIRError of an Err result
  fault        \* the cursor a read beyond its end was attempted on

vars == <<buf, cuts, pos, eir, has_flag, has_name, uuid16_idx, pc, err, fault>>

\* The locals of parse_eir as one value.
Cur ==
  [pos |-> pos, eir |-> eir, has_flag |-> has_flag, has_name |-> has_name,
   uuid16_idx |-> uuid16_idx, pc |-> pc, err |-> err, fault |-> fault]

Set(s) ==
  /\ pos' = s.pos
  /\ eir' = s.eir
  /\ has_flag' = s.has_flag
  /\ has_name' = s.has_name
  /\ uuid16_idx' = s.uuid16_idx
  /\ pc' = s.pc
  /\ err' = s.err
  /\ fault' = s.fault
  /\ buf' = buf
  /\ cuts' = cuts

\* The locals before the loop.
Start ==
  [pos |-> 0, eir |-> <<>>, has_flag |-> FALSE, has_name |-> FALSE,
   uuid16_idx |-> <<>>, pc |-> "loop", err |-> NoError, fault |-> "none"]

Init ==
  /\ buf \in Inputs
  /\ cuts \in CutSets(Len(buf), MaxCuts)
  /\ pos = Start.pos
  /\ eir = Start.eir
  /\ has_flag = Start.has_flag
  /\ has_name = Start.has_name
  /\ uuid16_idx = Start.uuid16_idx
  /\ pc = Start.pc
  /\ err = Start.err
  /\ fault = Start.fault

\* return Err(e)
ReturnErr(s, e) == [s EXCEPT !.pc = "err", !.err = e]

\* A get_* on a cursor with too few octets left: the assertion in Buf panics.
Panic(s, cursor) == [s EXCEPT !.pc = "panic", !.fault = cursor]

\* data.advance(data.remaining()); buf = data.into_inner()
NextRecord(s, next) == [s EXCEPT !.pos = next]

\* ------------------------------------------------------------ match arms
\* s is the state with the length and type octets consumed, data the data
\* region, next the cursor at the end of the data region and c the chunk
\* boundaries of the buffer.

\* FlagsArm without the has_flag test.
FlagsArmUnchecked(s, data, next) ==
  IF Len(data) < 1 THEN Panic([s EXCEPT !.has_flag = TRUE], "data")
  ELSE NextRecord(
         [s EXCEPT !.has_flag = TRUE,
                   !.eir = Append(@, EIRFlagsRec(from_bits_truncate(data[1])))],
         next)

FlagsArm(s, data, next) ==
  IF s.has_flag THEN ReturnErr(s, RepeatedFlag)
  ELSE IF Len(data) < 1 THEN Panic([s EXCEPT !.has_flag = TRUE], "data")
  ELSE NextRecord(
         [s EXCEPT !.has_flag = TRUE,
                   !.eir = Append(@, EIRFlagsRec(from_bits_truncate(data[1])))],
         next)

\* while data.has_remaining() { uuid16data.push(data.get_u16_le()) }, from
\* the vector ids.
RECURSIVE PushUuid16(_, _, _)
PushUuid16(ids, data, i) ==
  IF i + 1 > Len(data) THEN ids
  ELSE PushUuid16(Append(ids, get_u16_le(data[i], data[i + 1])), data, i + 2)

\* if let EIR::Uuid16(mut uuid16data) = &eir[idx] { ... }: the vector e after
\* the block.  The pattern binds uuid16data by value (a `mut` binding does
\* not borrow), so the pushes go to the local and e, borrowed shared, is
\* not written.
Uuid16Block(e, idx, data) ==
  LET uuid16data == PushUuid16(e[idx + 1].ids, data, 1)
  IN  e

\* Uuid16Arm reporting the length with the type octet counted in.
Uuid16ArmLenWithType(s, data, next) ==
  IF Len(data) % 2 # 0 THEN ReturnErr(s, UnexpectedDataLength(Len(data) + 1))
  ELSE LET first == s.uuid16_idx = <<>>
           idx == IF first THEN Len(s.eir) ELSE s.uuid16_idx[1]
           e == IF first THEN Append(s.eir, EIRUuid16(<<>>)) ELSE s.eir
       IN  NextRecord(
             [s EXCEPT !.uuid16_idx = <<idx>>, !.eir = Uuid16Block(e, idx, data)],
             next)

Uuid16Arm(s, data, next) ==
  IF Len(data) % 2 # 0 THEN ReturnErr(s, UnexpectedDataLength(Len(data)))
  ELSE LET first == s.uuid16_idx = <<>>
           idx == IF first THEN Len(s.eir) ELSE s.uuid16_idx[1]
           e == IF first THEN Append(s.eir, EIRUuid16(<<>>)) ELSE s.eir
       IN  NextRecord(
             [s EXCEPT !.uuid16_idx = <<idx>>, !.eir = Uuid16Block(e, idx, data)],
             next)

NameShortArm(s, data, next, c) ==
  IF s.has_name THEN ReturnErr(s, RepeatedName)
  ELSE NextRecord(
         [s EXCEPT !.has_name = TRUE,
                   !.eir = Append(@, EIRName(from_utf8_lossy(bytes(data, s.pos, c)), FALSE))],
         next)

\* NameCompleteArm without the has_name test.
NameCompleteArmUnchecked(s, data, next, c) ==
  NextRecord(
    [s EXCEPT !.has_name = TRUE,
              !.eir = Append(@, EIRName(from_utf8_lossy(bytes(data, s.pos, c)), TRUE))],
    next)

\* NameCompleteArm recording the name as a short one.
NameCompleteArmAsShort(s, data, next, c) ==
  IF s.has_name THEN ReturnErr(s, RepeatedName)
  ELSE NextRecord(
         [s EXCEPT !.has_name = TRUE,
                   !.eir = Append(@, EIRName(from_utf8_lossy(bytes(data, s.pos, c)), FALSE))],
         next)

NameCompleteArm(s, data, next, c) ==
  IF s.has_name THEN ReturnErr(s, RepeatedName)
  ELSE NextRecord(
         [s EXCEPT !.has_name = TRUE,
                   !.eir = Append(@, EIRName(from_utf8_lossy(bytes(data, s.pos, c)), TRUE))],
         next)

\* SkipArm leaving the data region unread.
SkipArmNoAdvance(s, data, next) == NextRecord(s, s.pos)

\* _ => { }
SkipArm(s, data, next) == NextRecord(s, next)

\* The arm the match on FromPrimitive::from_u8(data_type) takes.
Arm(data_type) ==
  IF data_type \notin EIRDataTypes THEN "Skip"
  ELSE IF data_type = Flags THEN "Flags"
  ELSE IF data_type \in {UUID16Incomplete, UUID16Complete} THEN "Uuid16"
  ELSE IF data_type = NameShort THEN "NameShort"
  ELSE IF data_type = NameComplete THEN "NameComplete"
  ELSE "Skip"

\* ------------------------------------------------------------- the loop

\* The loop is at a record whose length octet is nonzero and whose type octet
\* is in the buffer.
AtBlock(b, s) ==
  /\ s.pc = "loop"
  /\ has_remaining(b, s.pos)
  /\ b[s.pos + 1] # 0
  /\ has_remaining(b, s.pos + 1)

\* let len = buf.get_u8()
LenAt(b, s) == b[s.pos + 1]

\* let data_type = buf.get_u8()
TypeAt(b, s) == b[s.pos + 2]

\* let mut data = buf.take((len - 1).into())
DataAt(b, s) == take(b, s.pos + 2, LenAt(b, s))

\* One record through its match arm.
Dispatch(b, c, s) ==
  LET data == DataAt(b, s)
      t == [s EXCEPT !.pos = s.pos + 2]
      next == s.pos + 2 + Len(data)
      arm == Arm(TypeAt(b, s))
  IN  IF arm = "Flags" THEN FlagsArm(t, data, next)
      ELSE IF arm = "Uuid16" THEN Uuid16Arm(t, data, next)
      ELSE IF arm = "NameShort" THEN NameShortArm(t, data, next, c)
      ELSE IF arm = "NameComplete" THEN NameCompleteArm(t, data, next, c)
      ELSE SkipArm(t, data, next)

\* while buf.has_remaining() is false: Ok(eir)
ExitStep(s) == [s EXCEPT !.pc = "ok"]

\* BreakStep going on with the loop after the 0 length octet.
BreakStepContinues(s) == [s EXCEPT !.pos = s.pos + 1]

\* if len == 0 { break }
BreakStep(s) == [s EXCEPT !.pos = s.pos + 1, !.pc = "ok"]

\* buf.get_u8() for the type octet, with nothing left after the length octet.
TypeFaultStep(s) == Panic([s EXCEPT !.pos = s.pos + 1], "buf")

\* One iteration of the loop (or its exit).
Body(b, c, s) ==
  IF ~has_remaining(b, s.pos) THEN ExitStep(s)
  ELSE IF b[s.pos + 1] = 0 THEN BreakStep(s)
  ELSE IF ~has_remaining(b, s.pos + 1) THEN TypeFaultStep(s)
  ELSE Dispatch(b, c, s)

RECURSIVE Run(_, _, _)
Run(b, c, s) == IF s.pc # "loop" THEN s ELSE Run(b, c, Body(b, c, s))

\* What the caller sees: Ok(eir), Err(e) without a vector, or a panic.
Outcome(s) ==
  [pc |-> s.pc, eir |-> IF s.pc = "ok" THEN s.eir ELSE <<>>, err |-> s.err]

\* parse_eir on the octets b held in chunks that end at the offsets c.
parse_eir(b, c) == Outcome(Run(b, c, Start))

\* -------------------------------------------------------------- actions

Exit == pc = "loop" /\ ~has_remaining(buf, pos) /\ Set(ExitStep(Cur))

Break ==
  /\ pc = "loop"
  /\ has_remaining(buf, pos)
  /\ buf[pos + 1] = 0
  /\ Set(BreakStep(Cur))

TypeFault ==
  /\ pc = "loop"
  /\ has_remaining(buf, pos)
  /\ buf[pos + 1] # 0
  /\ ~has_remaining(buf, pos + 1)
  /\ Set(TypeFaultStep(Cur))

FlagsBlock ==
  /\ AtBlock(buf, Cur)
  /\ Arm(TypeAt(buf, Cur)) = "Flags"
  /\ Set(Dispatch(buf, cuts, Cur))

Uuid16Blk ==
  /\ AtBlock(buf, Cur)
  /\ Arm(TypeAt(buf, Cur)) = "Uuid16"
  /\ Set(Dispatch(buf, cuts, Cur))

NameShortBlock ==
  /\ AtBlock(buf, Cur)
  /\ Arm(TypeAt(buf, Cur)) = "NameShort"
  /\ Set(Dispatch(buf, cuts, Cur))

NameCompleteBlock ==
  /\ AtBlock(buf, Cur)
  /\ Arm(TypeAt(buf, Cur)) = "NameComplete"
  /\ Set(Dispatch(buf, cuts, Cur))

SkipBlock ==
  /\ AtBlock(buf, Cur)
  /\ Arm(TypeAt(buf, Cur)) = "Skip"
  /\ Set(Dispatch(buf, cuts, Cur))

Next ==
  \/ Exit
  \/ Break
  \/ TypeFault
  \/ FlagsBlock
  \/ Uuid16Blk
  \/ NameShortBlock
  \/ NameCompleteBlock
  \/ SkipBlock

Spec == Init /\ [][Next]_vars

\* ------------------------------------------------ the framing of a buffer
\* The [Length][Type][Data] records of a buffer as the format defines them,
\* read off the octets alone; the properties below compare what parse_eir did
\* with them.

\* The offset just after the record at offset p, capped at the buffer's end.
RecordEnd(b, p) == Min(p + 1 + b[p + 1], Len(b))

\* The records that start at an offset in p .. q - 1, up to the first zero
\* length octet or a length octet with no type octet after it.
RECURSIVE Records(_, _, _)
Records(b, p, q) ==
  IF p >= q \/ p >= Len(b) THEN <<>>
  ELSE IF b[p + 1] = 0 \/ p + 1 >= Len(b) THEN <<>>
  ELSE <<[at |-> p, len |-> b[p + 1], type |-> b[p + 2],
          data |-> SubSeq(b, p + 3, RecordEnd(b, p))]>>
         \o Records(b, RecordEnd(b, p), q)

\* The records the loop has gone through (at an error: the failing one too).
Walked == Records(buf, 0, pos)

\* The loop is at a record that has its type octet.
AtRecord == pc = "loop" /\ Records(buf, pos, pos + 1) # <<>>

\* The record the loop is at.
Here == Records(buf, pos, pos + 1)[1]

IsUuid16Type(t) == t = 2 \/ t = 3

IsNameType(t) == t = 8 \/ t = 9

\* The type codes parse_eir gives a decoder to.
Decoded == {1, 2, 3, 8, 9}

\* The type codes the format names and parse_eir has no decoder for.
Unimplemented == {4, 5, 6, 7, 10, 36, 255}

\* The number of the first n elements of the sequence q that satisfy Test.
Count(q, n, Test(_)) == Cardinality({ i \in 1..n : Test(q[i]) })

IsFlagsRecord(r) == r.tag = "Flags"

IsNameRecord(r) == r.tag = "Name"

IsUuid16Record(r) == r.tag = "Uuid16"

HasFlagsType(r) == r.type = 1

HasNameType(r) == IsNameType(r.type)

HasUuid16Type(r) == IsUuid16Type(r.type)

YieldsRecord(r) == r.type = 1 \/ IsNameType(r.type)

\* The 16-bit ids of the data octets d, 2 octets each, low octet first.
RECURSIVE IdsOf(_)
IdsOf(d) ==
  IF Len(d) < 2 THEN <<>>
  ELSE <<d[1] + 256 * d[2]>> \o IdsOf(SubSeq(d, 3, Len(d)))

\* The ids of all 16-bit-service-id records among rs, in order.
RECURSIVE AllIds(_)
AllIds(rs) ==
  IF rs = <<>> THEN <<>>
  ELSE (IF HasUuid16Type(rs[1]) THEN IdsOf(rs[1].data) ELSE <<>>)
         \o AllIds(Tail(rs))

\* The index of the first record of rs that satisfies Test (0 if none).
FirstIndex(rs, Test(_)) ==
  LET hits == { i \in 1..Len(rs) : Test(rs[i]) }
  IN  IF hits = {} THEN 0 ELSE CHOOSE i \in hits : \A j \in hits : i <= j

\* ------------------------------------------------------------------ C1

\* C1: parse_eir never attempts to read an octet beyond the end of the input
\* buffer, and a decoder never reads beyond the data region of its record:
\* no call ends in the panic of a read on an exhausted cursor.
C1_NoReadBeyondEnd == fault = "none"

\* ------------------------------------------------------------------ C2

\* C2: a successful decode of a buffer with several 16-bit-service-id blocks
\* has exactly one Uuid16 record, at the position the first such block
\* reserved (after the records of the Flags and Name blocks before it), and
\* it holds the ids of all those blocks in buffer order.
C2_Uuid16Accumulates ==
  (pc = "ok" /\ Count(Walked, Len(Walked), HasUuid16Type) >= 2) =>
    LET first == FirstIndex(Walked, HasUuid16Type)
        at == Count(Walked, first - 1, YieldsRecord) + 1
    IN  /\ Count(eir, Len(eir), IsUuid16Record) = 1
        /\ at <= Len(eir)
        /\ eir[at].tag = "Uuid16"
        /\ eir[at].ids = AllIds(Walked)

\* ------------------------------------------------------------------ C3

\* C3: when the loop reaches a Flags block after an earlier Flags block, the
\* call fails with RepeatedFlag, whatever the data of the two blocks, and no
\* successful result has more than one Flags record.
C3_RepeatedFlag ==
  /\ [](pc = "ok" => Count(eir, Len(eir), IsFlagsRecord) <= 1)
  /\ [][(/\ AtRecord
         /\ Here.type = 1
         /\ Count(Walked, Len(Walked), HasFlagsType) >= 1)
          => (pc' = "err" /\ err' = RepeatedFlag)]_vars

\* A call that failed with RepeatedFlag at a second Flags block whose data
\* region is empty, after a first Flags block with data.
C3_Witness ==
  /\ pc = "err"
  /\ err.kind = "RepeatedFlag"
  /\ Len(Walked) >= 2
  /\ Walked[Len(Walked)].data = <<>>
  /\ eir # <<>>

\* ------------------------------------------------------------------ C4

\* C4: when the loop reaches a Name block (type 8 or 9) after an earlier Name
\* block of either type, the call fails with RepeatedName and the output is
\* not written; no successful result has more than one Name record.
C4_RepeatedName ==
  /\ [](pc = "ok" => Count(eir, Len(eir), IsNameRecord) <= 1)
  /\ [][(/\ AtRecord
         /\ IsNameType(Here.type)
         /\ Count(Walked, Len(Walked), HasNameType) >= 1)
          => (pc' = "err" /\ err' = RepeatedName /\ eir' = eir)]_vars

\* A call that failed with RepeatedName at a complete-name block after a
\* short-name block was recorded.
C4_Witness ==
  /\ pc = "err"
  /\ err.kind = "RepeatedName"
  /\ Walked[Len(Walked)].type = 9
  /\ \E i \in 1..Len(eir) : eir[i].tag = "Name" /\ ~eir[i].complete

\* ------------------------------------------------------------------ C5

\* C5: when the loop reaches a 16-bit-service-id block whose data region has
\* an odd number of octets, the call fails with UnexpectedDataLength carrying
\* that number, whatever was decoded before.
C5_OddUuid16Length ==
  [][(AtRecord /\ IsUuid16Type(Here.type) /\ Len(Here.data) % 2 = 1)
       => (/\ pc' = "err"
           /\ err'.kind = "UnexpectedDataLength"
           /\ err'.len = Len(Here.data))]_vars

\* A call that failed with UnexpectedDataLength{len: 3} after it had decoded
\* a record.
C5_Witness ==
  /\ pc = "err"
  /\ err.kind = "UnexpectedDataLength"
  /\ err.len = 3
  /\ eir # <<>>

\* ------------------------------------------------------------------ C6

IsAscii(d) == \A i \in 1..Len(d) : d[i] < 128

\* C6: on a buffer supplied as one contiguous block (the caller's contract),
\* a Name block decodes to a Name record whose complete flag is FALSE for
\* type 8 and TRUE for type 9 and whose text is the data octets of the block
\* (octet for character when they are ASCII); a buffer that is the one block
\* [4, 9, "ABC"] or [4, 9, "Hi"] gives exactly one complete name with that
\* text.
C6_NameCompleteness ==
  cuts = {} =>
    /\ (pc # "loop" /\ buf = <<4, 9, 65, 66, 67>>)
         => (/\ pc = "ok"
             /\ Len(eir) = 1
             /\ eir[1].tag = "Name"
             /\ eir[1].name = <<65, 66, 67>>
             /\ eir[1].complete)
    /\ (pc # "loop" /\ buf = <<4, 9, 72, 105>>)
         => (/\ pc = "ok"
             /\ Len(eir) = 1
             /\ eir[1].tag = "Name"
             /\ eir[1].name = <<72, 105>>
             /\ eir[1].complete)
    /\ \A i \in 1..Len(eir) :
         eir[i].tag = "Name" =>
           LET r == Walked[FirstIndex(Walked, HasNameType)]
           IN  /\ eir[i].complete = (r.type = 9)
               /\ IsAscii(r.data) => eir[i].name = r.data

\* The decode of the contiguous buffer [4, 9, "Hi"] has ended with its one
\* record.
C6_Witness ==
  buf = <<4, 9, 72, 105>> /\ cuts = {} /\ pc = "ok" /\ Len(eir) = 1

\* ------------------------------------------------------------------ C7

\* C7: as eir_name_test asserts, parsing the Bytes [4, 9, "ABC"] succeeds with exactly
\* one record, a Name with text "ABC" whose complete flag is false.
C7_NameTest ==
  (pc # "loop" /\ buf = <<4, 9, 65, 66, 67>> /\ cuts = {}) =>
    /\ pc = "ok"
    /\ Len(eir) = 1
    /\ eir[1].tag = "Name"
    /\ eir[1].name = <<65, 66, 67>>
    /\ ~eir[1].complete

\* ------------------------------------------------------------------ C8

\* p is a sequence of whole records: each has a nonzero length octet L and
\* all of its L octets.
RECURSIVE IsRecordSeq(_)
IsRecordSeq(p) ==
  \/ p = <<>>
  \/ /\ p[1] # 0
     /\ Len(p) >= 1 + p[1]
     /\ IsRecordSeq(SubSeq(p, 2 + p[1], Len(p)))

\* C8: when the buffer is P ++ [0] ++ G with P a sequence of whole records
\* (in whatever chunks the buffer holds them),
\* the cursor never goes beyond the 0 octet and the call ends with the result
\* of parse_eir(P).
C8_StopsAtZeroLength ==
  \A k \in 1..Len(buf) :
    (buf[k] = 0 /\ IsRecordSeq(SubSeq(buf, 1, k - 1))) =>
      /\ pos <= k
      /\ pc # "loop" =>
           Outcome(Cur) = parse_eir(SubSeq(buf, 1, k - 1),
                                    { x \in cuts : x < k - 1 })

\* A successful decode that stopped at a 0 length octet after whole records,
\* with octets left behind it and a record in the output.
C8_Witness ==
  /\ pc = "ok"
  /\ pos >= 1
  /\ pos < Len(buf)
  /\ buf[pos] = 0
  /\ IsRecordSeq(SubSeq(buf, 1, pos - 1))
  /\ eir # <<>>
  /\ buf[pos + 1] # 0

\* ------------------------------------------------------------------ C9

\* The buffer b without the octets p + 1 .. q.
Without(b, p, q) == SubSeq(b, 1, p) \o SubSeq(b, q + 1, Len(b))

\* The chunk boundaries c of a buffer once its octets p + 1 .. q are gone.
CutsWithout(c, p, q) ==
  { x \in c : x <= p }
    \cup { p : x \in { y \in c : y > p /\ y <= q /\ p > 0 } }
    \cup { x - (q - p) : x \in { y \in c : y > q } }

\* C9: a block whose type code has no decoder (unrecognized or unimplemented)
\* adds no record, raises no error, leaves has_flag, has_name and the
\* service-id accumulator as they are and moves the cursor to the next record
\* boundary, 1 + L octets after the length octet (the end of the buffer when
\* the block is cut short); the call's result is that of the buffer without
\* the block.
C9_SkipsUndecoded ==
  [][(AtRecord /\ Here.type \notin Decoded)
       => (/\ pc' = "loop"
           /\ err' = err
           /\ eir' = eir
           /\ has_flag' = has_flag
           /\ has_name' = has_name
           /\ uuid16_idx' = uuid16_idx
           /\ pos' = Min(pos + 1 + Here.len, Len(buf))
           /\ parse_eir(buf, cuts)
                = parse_eir(Without(buf, pos, pos'),
                            CutsWithout(cuts, pos, pos')))]_vars

\* The loop has skipped a whole first block of an unimplemented type with
\* data, and records follow it.
C9_Witness ==
  /\ Len(buf) >= 3
  /\ buf[1] >= 2
  /\ buf[2] \in Unimplemented
  /\ pos = 1 + buf[1]
  /\ pos < Len(buf)
  /\ pc = "loop"

\* ------------------------------------------------------------------ C10

\* C10: a Flags record comes only from a Flags block with exactly 1 data
\* octet: in a successful decode every Flags block the loop went through
\* has 1 data octet.
C10_FlagsPayloadOneOctet ==
  pc = "ok" =>
    \A i \in 1..Len(Walked) :
      Walked[i].type = 1 => Len(Walked[i].data) = 1

====
